---- MODULE Spec2Model ----
(***************************************************************************)
(* Model of sentry_sdk/integrations/stdlib.py: the wrappers installed      *)
(* around HTTPConnection.putrequest / getresponse and around               *)
(* subprocess.Popen.__init__.                                              *)
(*                                                                         *)
(* Every connection of Conns is one HTTPConnection handle driven by its    *)
(* own thread, which also constructs Popen objects.  A wrapper is modelled *)
(* statement group by statement group (pc).  The collaborators that live   *)
(* outside stdlib.py (record_http_request, Hub.span, the trace context)    *)
(* are modelled from their description in the specification.               *)
(***************************************************************************)
EXTENDS Integers, Sequences, FiniteSets, TLC

VARIABLES
    integration,          \* Hub.current.get_integration(StdlibIntegration) is not None
    pc,                   \* per thread: position inside the running wrapper
    loc,                  \* per thread: local variables of the running wrapper
    sentrysdk_recorder,   \* per handle: self._sentrysdk_recorder (0 = not set)
    sentrysdk_data_dict,  \* per handle: self._sentrysdk_data_dict (0 = not set)
    sent,                 \* per handle: headers put on the request being built
    requested,            \* per handle: a request was put and not yet answered
    spans,                \* id -> span, the spans the program still refers to
    call,                 \* per thread: record of the running / last wrapper call
    heap,                 \* dict objects (id -> mapping) of the Popen calls
    fn                    \* a function of the module under evaluation: name, arguments, result

vars == <<integration, pc, loc, sentrysdk_recorder, sentrysdk_data_dict,
          sent, requested, spans, call, heap, fn>>

Conns == {"c1"}

(***************************************************************************)
(* Inputs                                                                  *)
(***************************************************************************)
\* host, port, default_port of the two handles
Handle(c) ==
    IF c = "c1"
    THEN [host |-> "example.com", port |-> 80, default_port |-> 80]
    ELSE [host |-> "example.com", port |-> 8443, default_port |-> 443]

\* URLs are sequences of tokens
Urls == { <<"/path">> }

Methods == {"GET"}

Statuses == {200, 404}

Reason(s) == IF s = 200 THEN "OK" ELSE "Not Found"

Responses == { [status |-> s, reason |-> Reason(s)] : s \in Statuses }

\* the value None where a response is expected
NoResponse == [status |-> 0, reason |-> ""]

\* header names are sequences of characters
H1 == [name |-> <<"s", "-", "t">>, value |-> "abc"]
H2 == [name |-> <<"b">>, value |-> "x=1"]

HeaderSeqs == { <<>>, <<H1>>, <<H1, H2>> }

(***************************************************************************)
(* Results of calls                                                        *)
(***************************************************************************)
NoResult == [kind |-> "none", exc |-> "none", origin |-> "none", rv |-> NoResponse]

Return(v) == [kind |-> "return", exc |-> "none", origin |-> "none", rv |-> v]

Raise(cls, where) == [kind |-> "raise", exc |-> cls, origin |-> where, rv |-> NoResponse]

\* what the unwrapped HTTPConnection.putrequest can do
PutRequestOutcomes ==
    { Return(NoResponse) }
    \cup { Raise(e, "real_putrequest") : e \in {"Exception", "BaseException"} }

\* what the unwrapped HTTPConnection.getresponse can do
GetResponseOutcomes ==
    { Return(r) : r \in Responses }
    \cup { Raise(e, "real_getresponse") : e \in {"TypeError", "Exception", "BaseException"} }

\* `except Exception` catches it (TypeError is handled before, where it matters)
IsException(r) == r.kind = "raise" /\ r.exc \in {"Exception", "TypeError"}

(***************************************************************************)
(* Spans and the recorder of record_http_request                           *)
(***************************************************************************)
NoData == [httplib_response |-> NoResponse, status_code |-> 0, reason |-> "", cwd |-> -1]

NewSpan(op, description) ==
    [op |-> op, description |-> description, state |-> "open",
     outcome |-> "none", exc |-> "none", closes |-> 0, data |-> NoData]

\* the span is finished with the given exception info ("none" = success)
SpanClose(ss, id, exc) ==
    [ss EXCEPT ![id] = [@ EXCEPT !.state = "closed",
                                 !.outcome = IF exc = "none" THEN "success" ELSE "failure",
                                 !.exc = exc,
                                 !.closes = @ + 1]]

\* the id a new span gets: the smallest one not in use
FreshId(ss) ==
    CHOOSE i \in 1..(Cardinality(DOMAIN ss) + 1) :
        /\ i \notin DOMAIN ss
        /\ \A j \in 1..(i - 1) : j \in DOMAIN ss

AddSpan(ss, s) ==
    [i \in DOMAIN ss \cup {FreshId(ss)} |-> IF i \in DOMAIN ss THEN ss[i] ELSE s]

\* recorder.__enter__(): the span is opened, its data mapping is returned
RecorderEnter(ss, url, method) == AddSpan(ss, NewSpan("http", <<url, method>>))

\* a recorder whose exit finishes the span each time it is called
RecorderExitAgain(ss, id, exc) == SpanClose(ss, id, exc)

\* recorder.__exit__(exc_info): closes the span; a recorder that has exited is inert
RecorderExit(ss, id, exc) ==
    IF ss[id].state = "open" THEN SpanClose(ss, id, exc) ELSE ss

(***************************************************************************)
(* Thread-local state                                                      *)
(***************************************************************************)
NoLoc == [recorder |-> 0, data_dict |-> 0, rv |-> NoResult, exc |-> NoResult,
          a |-> <<>>, kw |-> <<>>, span |-> 0]

\* op: the wrapper; active: the integration was found active; given / forwarded:
\* the arguments of the caller / those the unwrapped primitive received; prim /
\* result: what the unwrapped primitive did / what the caller got; hdrs: the
\* propagation headers of the call; log: the events of the call in order; span:
\* the span the call opened or found on the handle; before / state0: the handle's
\* recorder and the state of its span when the call began; prev: what the
\* thread's call before this one was (see Kind)
NoCall == [op |-> "none", active |-> FALSE, given |-> <<>>, forwarded |-> <<>>,
           called |-> FALSE, prim |-> NoResult, result |-> NoResult,
           hdrs |-> <<>>, log |-> <<>>, span |-> 0, before |-> 0,
           state0 |-> "none", prev |-> "other"]

\* a getresponse whose primitive rejected an argument is a "probe", an active
\* putrequest that raised is "put_failed", one that returned is "put_ok"
Kind(k) ==
    IF k.op = "getresponse" /\ k.prim.exc = "TypeError" THEN "probe"
    ELSE IF k.op = "putrequest" /\ k.active /\ k.result.kind = "raise" THEN "put_failed"
    ELSE IF k.op = "putrequest" /\ k.active /\ k.result.kind = "return" THEN "put_ok"
    ELSE "other"

StartCall(c, op, given) ==
    [NoCall EXCEPT !.op = op, !.active = integration, !.given = given,
                   !.before = sentrysdk_recorder[c],
                   !.state0 = IF sentrysdk_recorder[c] = 0 THEN "none"
                              ELSE spans[sentrysdk_recorder[c]].state,
                   !.prev = Kind(call[c])]

\* os.environ, a caller's env mapping, a caller's empty env mapping
InitialHeap ==
    << (<<"P">> :> "/bin"), (<<"L">> :> "C"), <<>> >>

\* the dict objects that exist outside a Popen call; the copy made for a
\* child is garbage once the next wrapper is entered
InitialObjects(hp) == SubSeq(hp, 1, Len(InitialHeap))

\* the spans something still refers to when thread c enters a wrapper: those
\* stored on a handle, those held by a running wrapper and those of the last
\* call of the other threads.  The others have gone to the telemetry sink.
Referenced(c) ==
    { sentrysdk_recorder[d] : d \in DOMAIN pc } \cup { sentrysdk_data_dict[d] : d \in DOMAIN pc }
    \cup { loc[d].recorder : d \in DOMAIN pc } \cup { loc[d].data_dict : d \in DOMAIN pc }
    \cup { loc[d].span : d \in DOMAIN pc } \cup { call[d].span : d \in DOMAIN pc \ {c} }

Held(c) == [i \in DOMAIN spans \cap Referenced(c) |-> spans[i]]

(***************************************************************************)
(* putrequest                                                              *)
(***************************************************************************)
StartsWithScheme(url) ==
    /\ Len(url) >= 2
    /\ url[1] \in {"http", "https"}
    /\ url[2] = "://"

\* a URL whose port segment is left out for the standard ports of HTTP and HTTPS
RealUrlStandardPorts(host, port, default_port, url) ==
    IF StartsWithScheme(url)
    THEN url
    ELSE <<IF default_port = 443 THEN "https" ELSE "http", "://", host>>
         \o (IF port \notin {80, 443} THEN <<":", ToString(port)>> ELSE <<>>)
         \o url

\* lines 59-66
RealUrl(host, port, default_port, url) ==
    IF StartsWithScheme(url)
    THEN url
    ELSE <<IF default_port = 443 THEN "https" ELSE "http", "://", host>>
         \o (IF port # default_port THEN <<":", ToString(port)>> ELSE <<>>)
         \o url

\* the unwrapped putrequest on the connection: it starts a new request when
\* none is under way, and fails otherwise
RealPutRequest(c, o) ==
    /\ o.kind = "return" => ~requested[c]
    /\ sent' = IF o.kind = "return" THEN [sent EXCEPT ![c] = <<>>] ELSE sent
    /\ requested' = IF o.kind = "return" THEN [requested EXCEPT ![c] = TRUE]
                    ELSE requested

\* the unwrapped getresponse on the connection: it returns the response of the
\* request under way; a failure other than a rejected argument ends the request
RealGetResponse(c, o) ==
    /\ o.kind = "return" => requested[c]
    /\ requested' = IF o.exc = "TypeError" THEN requested
                    ELSE [requested EXCEPT ![c] = FALSE]

\* lines 51-69: the integration check, the URL, the recorder is entered
PutRequestBegin(c, method, url) ==
    /\ pc[c] = "idle"
    /\ IF ~integration
       THEN /\ pc' = [pc EXCEPT ![c] = "pr_forward"]
            /\ call' = [call EXCEPT ![c] =
                           StartCall(c, "putrequest", <<method, url>>)]
            /\ spans' = Held(c)
            /\ loc' = loc
       ELSE /\ spans' = RecorderEnter(Held(c),
                           RealUrl(Handle(c).host, Handle(c).port,
                                   Handle(c).default_port, url),
                           method)
            /\ loc' = [loc EXCEPT ![c] = [NoLoc EXCEPT !.recorder = FreshId(Held(c)),
                                                       !.data_dict = FreshId(Held(c))]]
            /\ call' = [call EXCEPT ![c] =
                           [StartCall(c, "putrequest", <<method, url>>) EXCEPT
                               !.log = <<"open">>,
                               !.span = FreshId(Held(c))]]
            /\ pc' = [pc EXCEPT ![c] = "pr_real"]
    /\ heap' = InitialObjects(heap)
    /\ UNCHANGED <<fn, integration, sentrysdk_recorder, sentrysdk_data_dict, sent, requested>>

\* a forward that puts a propagation header although the integration is off
PutRequestForwardInjects(c, o) ==
    /\ pc[c] = "pr_forward"
    /\ call' = [call EXCEPT ![c].forwarded = call[c].given,
                            ![c].called = TRUE,
                            ![c].prim = o,
                            ![c].result = o]
    /\ o.kind = "return" => ~requested[c]
    /\ sent' = IF o.kind = "return" THEN [sent EXCEPT ![c] = <<H1>>] ELSE sent
    /\ requested' = IF o.kind = "return" THEN [requested EXCEPT ![c] = TRUE]
                    ELSE requested
    /\ pc' = [pc EXCEPT ![c] = "idle"]
    /\ UNCHANGED <<fn, integration, loc, sentrysdk_recorder, sentrysdk_data_dict, spans, heap>>

\* line 53
PutRequestForward(c, o) ==
    /\ pc[c] = "pr_forward"
    /\ call' = [call EXCEPT ![c].forwarded = call[c].given,
                            ![c].called = TRUE,
                            ![c].prim = o,
                            ![c].result = o]
    /\ RealPutRequest(c, o)
    /\ pc' = [pc EXCEPT ![c] = "idle"]
    /\ UNCHANGED <<fn, integration, loc, sentrysdk_recorder, sentrysdk_data_dict, spans, heap>>

\* line 72
PutRequestReal(c, o) ==
    /\ pc[c] = "pr_real"
    /\ RealPutRequest(c, o)
    /\ loc' = [loc EXCEPT ![c] = IF o.kind = "return" THEN [@ EXCEPT !.rv = o]
                                  ELSE IF IsException(o) THEN [@ EXCEPT !.exc = o]
                                  ELSE NoLoc]
    /\ call' = [call EXCEPT ![c].forwarded = call[c].given,
                            ![c].called = TRUE,
                            ![c].prim = o,
                            ![c].log = Append(@, "real_putrequest"),
                            ![c].result = IF o.kind = "raise" /\ ~IsException(o)
                                          THEN o ELSE @]
    /\ pc' = [pc EXCEPT ![c] =
                 IF o.kind = "return" THEN "pr_headers"
                 ELSE IF IsException(o) THEN "pr_except"
                 ELSE "idle"]
    /\ UNCHANGED <<fn, integration, sentrysdk_recorder, sentrysdk_data_dict, spans, heap>>

\* lines 74-75: n headers are put; when n < Len(hs) the next putheader raises
PutRequestHeaders(c, hs, n) ==
    /\ pc[c] = "pr_headers"
    /\ sent' = [sent EXCEPT ![c] = @ \o SubSeq(hs, 1, n)]
    /\ call' = [call EXCEPT ![c].hdrs = hs,
                            ![c].log = @ \o [i \in 1..n |-> "putheader"]]
    /\ IF n = Len(hs)
       THEN /\ pc' = [pc EXCEPT ![c] = "pr_store"]
            /\ loc' = loc
       ELSE /\ pc' = [pc EXCEPT ![c] = "pr_except"]
            /\ loc' = [loc EXCEPT ![c].exc = Raise("Exception", "putheader")]
    /\ UNCHANGED <<fn, integration, sentrysdk_recorder, sentrysdk_data_dict, spans, heap, requested>>

\* a handler that stores the recorder on the handle before it re-raises
PutRequestExceptStores(c) ==
    /\ pc[c] = "pr_except"
    /\ spans' = RecorderExit(spans, loc[c].recorder, loc[c].exc.exc)
    /\ sentrysdk_recorder' = [sentrysdk_recorder EXCEPT ![c] = loc[c].recorder]
    /\ sentrysdk_data_dict' = [sentrysdk_data_dict EXCEPT ![c] = loc[c].data_dict]
    /\ call' = [call EXCEPT ![c].log = Append(@, "exit"),
                            ![c].result = loc[c].exc]
    /\ pc' = [pc EXCEPT ![c] = "idle"]
    /\ loc' = [loc EXCEPT ![c] = NoLoc]
    /\ UNCHANGED <<fn, integration, sent, heap, requested>>

\* a handler that re-raises and leaves the span alone
PutRequestExceptNoExit(c) ==
    /\ pc[c] = "pr_except"
    /\ call' = [call EXCEPT ![c].result = loc[c].exc]
    /\ pc' = [pc EXCEPT ![c] = "idle"]
    /\ loc' = [loc EXCEPT ![c] = NoLoc]
    /\ UNCHANGED <<fn, integration, sentrysdk_recorder, sentrysdk_data_dict, sent, heap,
                   requested, spans>>

\* lines 76-78
PutRequestExcept(c) ==
    /\ pc[c] = "pr_except"
    /\ spans' = RecorderExit(spans, loc[c].recorder, loc[c].exc.exc)
    /\ call' = [call EXCEPT ![c].log = Append(@, "exit"),
                            ![c].result = loc[c].exc]
    /\ pc' = [pc EXCEPT ![c] = "idle"]
    /\ loc' = [loc EXCEPT ![c] = NoLoc]
    /\ UNCHANGED <<fn, integration, sentrysdk_recorder, sentrysdk_data_dict, sent, heap, requested>>

\* a store that keeps the recorder the handle already has
PutRequestStoreKeepsFirst(c) ==
    /\ pc[c] = "pr_store"
    /\ sentrysdk_recorder' =
          IF sentrysdk_recorder[c] = 0
          THEN [sentrysdk_recorder EXCEPT ![c] = loc[c].recorder]
          ELSE sentrysdk_recorder
    /\ sentrysdk_data_dict' =
          IF sentrysdk_recorder[c] = 0
          THEN [sentrysdk_data_dict EXCEPT ![c] = loc[c].data_dict]
          ELSE sentrysdk_data_dict
    /\ call' = [call EXCEPT ![c].log = Append(@, "store"),
                            ![c].result = loc[c].rv]
    /\ pc' = [pc EXCEPT ![c] = "idle"]
    /\ loc' = [loc EXCEPT ![c] = NoLoc]
    /\ UNCHANGED <<fn, integration, sent, spans, heap, requested>>

\* a store into an attribute that all handles share
PutRequestStoreShared(c) ==
    /\ pc[c] = "pr_store"
    /\ sentrysdk_recorder' = [d \in DOMAIN sentrysdk_recorder |-> loc[c].recorder]
    /\ sentrysdk_data_dict' = [d \in DOMAIN sentrysdk_data_dict |-> loc[c].data_dict]
    /\ call' = [call EXCEPT ![c].log = Append(@, "store"),
                            ![c].result = loc[c].rv]
    /\ pc' = [pc EXCEPT ![c] = "idle"]
    /\ loc' = [loc EXCEPT ![c] = NoLoc]
    /\ UNCHANGED <<fn, integration, sent, spans, heap, requested>>

\* lines 80-83
PutRequestStore(c) ==
    /\ pc[c] = "pr_store"
    /\ sentrysdk_recorder' = [sentrysdk_recorder EXCEPT ![c] = loc[c].recorder]
    /\ sentrysdk_data_dict' = [sentrysdk_data_dict EXCEPT ![c] = loc[c].data_dict]
    /\ call' = [call EXCEPT ![c].log = Append(@, "store"),
                            ![c].result = loc[c].rv]
    /\ pc' = [pc EXCEPT ![c] = "idle"]
    /\ loc' = [loc EXCEPT ![c] = NoLoc]
    /\ UNCHANGED <<fn, integration, sent, spans, heap, requested>>

(***************************************************************************)
(* getresponse                                                             *)
(***************************************************************************)
\* lines 86-91
GetResponseBegin(c) ==
    /\ pc[c] = "idle"
    /\ call' = [call EXCEPT ![c] =
                   [StartCall(c, "getresponse", <<>>) EXCEPT
                       !.span = sentrysdk_recorder[c]]]
    /\ IF sentrysdk_recorder[c] = 0
       THEN /\ pc' = [pc EXCEPT ![c] = "gr_forward"]
            /\ loc' = loc
       ELSE /\ pc' = [pc EXCEPT ![c] = "gr_real"]
            /\ loc' = [loc EXCEPT ![c] = [NoLoc EXCEPT
                                             !.recorder = sentrysdk_recorder[c],
                                             !.data_dict = sentrysdk_data_dict[c]]]
    /\ spans' = Held(c)
    /\ heap' = InitialObjects(heap)
    /\ UNCHANGED <<fn, integration, sentrysdk_recorder, sentrysdk_data_dict, sent, requested>>

\* line 89
GetResponseForward(c, o) ==
    /\ pc[c] = "gr_forward"
    /\ RealGetResponse(c, o)
    /\ call' = [call EXCEPT ![c].forwarded = call[c].given,
                         ![c].called = TRUE,
                         ![c].prim = o,
                         ![c].result = o]
    /\ pc' = [pc EXCEPT ![c] = "idle"]
    /\ UNCHANGED <<fn, integration, loc, sentrysdk_recorder, sentrysdk_data_dict, sent, spans, heap>>

\* lines 96-99
RecordResponse(ss, id, rv) ==
    IF id # 0
    THEN [ss EXCEPT ![id].data = [@ EXCEPT !.httplib_response = rv,
                                           !.status_code = rv.status,
                                           !.reason = rv.reason]]
    ELSE ss

\* a getresponse in which `except TypeError` is missing
PassesThroughNoProbe(o) == o.kind = "raise" /\ ~IsException(o)

\* lines 100-105: the failures of the unwrapped getresponse that leave the wrapper
\* without reaching `except Exception`
PassesThrough(o) == o.kind = "raise" /\ (o.exc = "TypeError" \/ ~IsException(o))

\* lines 93-104: the unwrapped call, the response data, the TypeError re-raise
GetResponseReal(c, o) ==
    /\ pc[c] = "gr_real"
    /\ RealGetResponse(c, o)
    /\ spans' = IF o.kind = "return"
                THEN RecordResponse(spans, loc[c].data_dict, o.rv)
                ELSE spans
    /\ call' = [call EXCEPT ![c].forwarded = call[c].given,
                            ![c].called = TRUE,
                            ![c].prim = o,
                            ![c].log = Append(@, "real_getresponse"),
                            ![c].result = IF PassesThrough(o) THEN o ELSE @]
    /\ IF o.kind = "return"
       THEN /\ pc' = [pc EXCEPT ![c] = "gr_else"]
            /\ loc' = [loc EXCEPT ![c].rv = o]
       ELSE IF PassesThrough(o)
       THEN /\ pc' = [pc EXCEPT ![c] = "idle"]
            /\ loc' = [loc EXCEPT ![c] = NoLoc]
       ELSE /\ pc' = [pc EXCEPT ![c] = "gr_except"]
            /\ loc' = [loc EXCEPT ![c].exc = o]
    /\ UNCHANGED <<fn, integration, sentrysdk_recorder, sentrysdk_data_dict, sent, heap>>

\* a handler that re-raises and leaves the span alone
GetResponseExceptNoExit(c) ==
    /\ pc[c] = "gr_except"
    /\ call' = [call EXCEPT ![c].result = loc[c].exc]
    /\ pc' = [pc EXCEPT ![c] = "idle"]
    /\ loc' = [loc EXCEPT ![c] = NoLoc]
    /\ UNCHANGED <<fn, integration, sentrysdk_recorder, sentrysdk_data_dict, sent, heap,
                   requested, spans>>

\* lines 105-107
GetResponseExcept(c) ==
    /\ pc[c] = "gr_except"
    /\ spans' = RecorderExit(spans, loc[c].recorder, loc[c].exc.exc)
    /\ call' = [call EXCEPT ![c].log = Append(@, "exit"),
                            ![c].result = loc[c].exc]
    /\ pc' = [pc EXCEPT ![c] = "idle"]
    /\ loc' = [loc EXCEPT ![c] = NoLoc]
    /\ UNCHANGED <<fn, integration, sentrysdk_recorder, sentrysdk_data_dict, sent, heap, requested>>

\* an else clause that takes an error status for a failure of the call
GetResponseElseByStatus(c) ==
    /\ pc[c] = "gr_else"
    /\ spans' = RecorderExit(spans, loc[c].recorder,
                             IF loc[c].rv.rv.status >= 400 THEN "Exception" ELSE "none")
    /\ call' = [call EXCEPT ![c].log = Append(@, "exit"),
                            ![c].result = loc[c].rv]
    /\ pc' = [pc EXCEPT ![c] = "idle"]
    /\ loc' = [loc EXCEPT ![c] = NoLoc]
    /\ UNCHANGED <<fn, integration, sentrysdk_recorder, sentrysdk_data_dict, sent, heap,
                   requested>>

\* lines 108-111
GetResponseElse(c) ==
    /\ pc[c] = "gr_else"
    /\ spans' = RecorderExit(spans, loc[c].recorder, "none")
    /\ call' = [call EXCEPT ![c].log = Append(@, "exit"),
                            ![c].result = loc[c].rv]
    /\ pc' = [pc EXCEPT ![c] = "idle"]
    /\ loc' = [loc EXCEPT ![c] = NoLoc]
    /\ UNCHANGED <<fn, integration, sentrysdk_recorder, sentrysdk_data_dict, sent, heap, requested>>

(***************************************************************************)
(* Python objects of a Popen call.  None is 0, dict objects are the        *)
(* positive ids 1..Len(heap), other objects are negative ids.              *)
(***************************************************************************)
PyNone == 0

\* os.environ is the first dict of the heap
OsEnviron == 1

\* env mappings a caller may pass: a non-empty one and the empty one
CallerEnv == 2

EmptyEnv == 3

\* ["ls", "-la"], "/tmp", a fresh [] and an iterator object
CmdList == -1

CwdStr == -2

EmptyList == -3

CmdIter == -4

IsDict(x, hp) == x \in 1..Len(hp)

\* bool(x)
Truthy(x, hp) ==
    /\ x # PyNone
    /\ x # EmptyList
    /\ IsDict(x, hp) => DOMAIN hp[x] # {}

IsListOrTuple(x) == x \in {CmdList, EmptyList}

ObjLen(x) == IF x = CmdList THEN 2 ELSE 0

\* kwargs[name] = v
DictSet(d, k, v) == [x \in DOMAIN d \cup {k} |-> IF x = k THEN v ELSE d[x]]

\* a callback that hands back the mapping it was given, or os.environ itself
ApplyCallbackNoCopy(cb, x, hp) ==
    IF cb = "none"
    THEN [rv |-> x, heap |-> hp]
    ELSE IF cb = "null"
    THEN [rv |-> PyNone, heap |-> hp]
    ELSE [rv |-> IF Truthy(x, hp) THEN x ELSE OsEnviron, heap |-> hp]

\* the callbacks handed to _init_argument: none, lambda x: dict(x or os.environ)
\* ("env"), and a callback that has no default to offer, lambda x: None ("null")
ApplyCallback(cb, x, hp) ==
    IF cb = "none"
    THEN [rv |-> x, heap |-> hp]
    ELSE IF cb = "null"
    THEN [rv |-> PyNone, heap |-> hp]
    ELSE [rv |-> Len(hp) + 1,
          heap |-> Append(hp, hp[IF Truthy(x, hp) THEN x ELSE OsEnviron])]

\* an extractor that installs the value of an absent parameter without looking at it
InitArgumentInstalls(args, kwargs, name, position, cb, hp) ==
    IF name \in DOMAIN kwargs
    THEN LET r == ApplyCallback(cb, kwargs[name], hp)
         IN  [rv |-> r.rv, args |-> args, heap |-> r.heap,
              kwargs |-> IF r.rv # PyNone THEN DictSet(kwargs, name, r.rv) ELSE kwargs]
    ELSE IF position < Len(args)
    THEN LET r == ApplyCallback(cb, args[position + 1], hp)
         IN  [rv |-> r.rv, kwargs |-> kwargs, heap |-> r.heap,
              args |-> IF r.rv # PyNone
                       THEN [args EXCEPT ![position + 1] = r.rv] ELSE args]
    ELSE LET r == IF cb = "none" THEN [rv |-> PyNone, heap |-> hp]
                  ELSE ApplyCallback(cb, PyNone, hp)
         IN  [rv |-> r.rv, args |-> args, heap |-> r.heap,
              kwargs |-> DictSet(kwargs, name, r.rv)]

\* an extractor that writes the default of a positional parameter back by name
InitArgumentByKeyword(args, kwargs, name, position, cb, hp) ==
    IF name \in DOMAIN kwargs \/ position < Len(args)
    THEN LET r == ApplyCallback(cb, IF name \in DOMAIN kwargs THEN kwargs[name]
                                    ELSE args[position + 1], hp)
         IN  [rv |-> r.rv, args |-> args, heap |-> r.heap,
              kwargs |-> IF r.rv # PyNone /\ cb # "none"
                         THEN DictSet(kwargs, name, r.rv) ELSE kwargs]
    ELSE LET r == IF cb = "none" THEN [rv |-> PyNone, heap |-> hp]
                  ELSE ApplyCallback(cb, PyNone, hp)
         IN  [rv |-> r.rv, args |-> args, heap |-> r.heap,
              kwargs |-> IF r.rv # PyNone THEN DictSet(kwargs, name, r.rv) ELSE kwargs]

\* lines 127-144
InitArgument(args, kwargs, name, position, cb, hp) ==
    IF name \in DOMAIN kwargs
    THEN LET r == ApplyCallback(cb, kwargs[name], hp)
         IN  [rv |-> r.rv, args |-> args, heap |-> r.heap,
              kwargs |-> IF r.rv # PyNone THEN DictSet(kwargs, name, r.rv) ELSE kwargs]
    ELSE IF position < Len(args)
    THEN LET r == ApplyCallback(cb, args[position + 1], hp)
         IN  [rv |-> r.rv, kwargs |-> kwargs, heap |-> r.heap,
              args |-> IF r.rv # PyNone
                       THEN [args EXCEPT ![position + 1] = r.rv] ELSE args]
    ELSE LET r == IF cb = "none" THEN [rv |-> PyNone, heap |-> hp]
                  ELSE ApplyCallback(cb, PyNone, hp)
         IN  [rv |-> r.rv, args |-> args, heap |-> r.heap,
              kwargs |-> IF r.rv # PyNone THEN DictSet(kwargs, name, r.rv) ELSE kwargs]

PosArgs == 0

PosCwd == 9

PosEnv == 10

MaxDescriptionArgs == 100

\* str.upper() on the characters header names are made of
LowerChars == <<"a", "b", "s", "t">>

UpperChars == <<"A", "B", "S", "T">>

Upper(ch) ==
    IF \E i \in 1..Len(LowerChars) : LowerChars[i] = ch
    THEN UpperChars[CHOOSE i \in 1..Len(LowerChars) : LowerChars[i] = ch]
    ELSE ch

EnvPrefix == <<"S", "U", "B", "P", "R", "O", "C", "E", "S", "S", "_">>

\* a variable name in which the dashes of the header name are kept
EnvKeyKeepsDashes(k) == EnvPrefix \o [i \in 1..Len(k) |-> Upper(k[i])]

\* line 182: "SUBPROCESS_" + k.upper().replace("-", "_")
EnvKey(k) ==
    EnvPrefix \o [i \in 1..Len(k) |-> IF Upper(k[i]) = "-" THEN "_" ELSE Upper(k[i])]

\* lines 179-182, from header i on; st = [a, kw, env, heap]
RECURSIVE InjectHeaders(_, _, _)
InjectHeaders(hs, i, st) ==
    IF i > Len(hs)
    THEN st
    ELSE LET r == IF st.env = PyNone
                  THEN InitArgument(st.a, st.kw, "env", PosEnv, "env", st.heap)
                  ELSE [rv |-> st.env, args |-> st.a, kwargs |-> st.kw, heap |-> st.heap]
         IN  InjectHeaders(hs, i + 1,
                 [a |-> r.args, kw |-> r.kwargs, env |-> r.rv,
                  heap |-> [r.heap EXCEPT ![r.rv] =
                               DictSet(@, EnvKey(hs[i].name), hs[i].value)]])

\* a preparation that sets the default of env before it looks for headers
PopenPrepareEager(a, kw, hs, hp) ==
    LET r1   == InitArgument(a, kw, "args", PosArgs, "none", hp)
        args == IF Truthy(r1.rv, r1.heap) THEN r1.rv ELSE EmptyList
        r2   == InitArgument(r1.args, r1.kwargs, "cwd", PosCwd, "none", r1.heap)
        r3   == InitArgument(r2.args, r2.kwargs, "env", PosEnv, "env", r2.heap)
        st   == InjectHeaders(hs, 1, [a |-> r3.args, kw |-> r3.kwargs,
                                      env |-> r3.rv, heap |-> r3.heap])
    IN  [a |-> st.a, kw |-> st.kw, heap |-> st.heap, cwd |-> r2.rv,
         description |-> IF IsListOrTuple(args) /\ ObjLen(args) < MaxDescriptionArgs
                         THEN <<"join", ToString(args)>>
                         ELSE <<"safe_repr", ToString(args)>>]

\* lines 156-182: what the unwrapped constructor will be given, and the span's texts
PopenPrepare(a, kw, hs, hp) ==
    LET r1   == InitArgument(a, kw, "args", PosArgs, "none", hp)
        args == IF Truthy(r1.rv, r1.heap) THEN r1.rv ELSE EmptyList
        r2   == InitArgument(r1.args, r1.kwargs, "cwd", PosCwd, "none", r1.heap)
        st   == InjectHeaders(hs, 1, [a |-> r2.args, kw |-> r2.kwargs,
                                      env |-> PyNone, heap |-> r2.heap])
    IN  [a |-> st.a, kw |-> st.kw, heap |-> st.heap, cwd |-> r2.rv,
         description |-> IF IsListOrTuple(args) /\ ObjLen(args) < MaxDescriptionArgs
                         THEN <<"join", ToString(args)>>
                         ELSE <<"safe_repr", ToString(args)>>]

\* the ways a caller constructs a Popen
PopenCalls ==
    { [a |-> <<CmdList>>, kw |-> <<>>],
      [a |-> <<>>, kw |-> ("args" :> CmdList) @@ ("cwd" :> CwdStr)],
      [a |-> <<CmdIter>>, kw |-> ("env" :> CallerEnv)],
      [a |-> <<CmdList>>, kw |-> ("env" :> EmptyEnv)],
      [a |-> <<CmdList>>, kw |-> ("env" :> PyNone)],
      [a |-> <<CmdList, 0, 0, 0, 0, 0, 0, 0, 0, CwdStr, CallerEnv>>, kw |-> <<>>] }

\* what the unwrapped Popen.__init__ can do
PopenOutcomes ==
    { Return(NoResponse) }
    \cup { Raise(e, "old_popen_init") : e \in {"Exception", "BaseException"} }

\* hub.span(op=..., description=...).__enter__()
HubSpanEnter(ss, op, description) == AddSpan(ss, NewSpan(op, description))

\* span.set_data(key, value) for the key "subprocess.cwd"
SpanSetCwd(ss, id, v) == [ss EXCEPT ![id].data.cwd = v]

\* hub.span(...).__exit__(exc_info): the scope ends, the span is closed
HubSpanExit(ss, id, exc) == SpanClose(ss, id, exc)

\* lines 151-185: the integration check, the arguments, the span is opened
PopenBegin(c, given, hs) ==
    /\ pc[c] = "idle"
    /\ IF ~integration
       THEN /\ pc' = [pc EXCEPT ![c] = "pp_forward"]
            /\ call' = [call EXCEPT ![c] = StartCall(c, "Popen", given)]
            /\ heap' = InitialObjects(heap)
            /\ spans' = Held(c)
            /\ loc' = loc
       ELSE LET p == PopenPrepare(given.a, given.kw, hs, InitialObjects(heap))
                id == FreshId(Held(c))
            IN  /\ heap' = p.heap
                /\ spans' = SpanSetCwd(HubSpanEnter(Held(c), "subprocess", p.description),
                                       id, p.cwd)
                /\ loc' = [loc EXCEPT ![c] = [NoLoc EXCEPT !.a = p.a, !.kw = p.kw,
                                                           !.span = id]]
                /\ call' = [call EXCEPT ![c] =
                               [StartCall(c, "Popen", given) EXCEPT !.hdrs = hs,
                                                                 !.log = <<"open">>,
                                                                 !.span = id]]
                /\ pc' = [pc EXCEPT ![c] = "pp_init"]
    /\ UNCHANGED <<fn, integration, sentrysdk_recorder, sentrysdk_data_dict, sent, requested>>

\* line 153
PopenForward(c, o) ==
    /\ pc[c] = "pp_forward"
    /\ call' = [call EXCEPT ![c].forwarded = call[c].given,
                            ![c].called = TRUE,
                            ![c].prim = o,
                            ![c].result = o]
    /\ pc' = [pc EXCEPT ![c] = "idle"]
    /\ UNCHANGED <<fn, integration, loc, sentrysdk_recorder, sentrysdk_data_dict, sent,
                   spans, heap, requested>>

\* a constructor call whose span is closed by hand, on the normal path only
PopenInitNoExitOnRaise(c, o) ==
    /\ pc[c] = "pp_init"
    /\ spans' = IF o.kind = "return" THEN HubSpanExit(spans, loc[c].span, o.exc)
                ELSE spans
    /\ call' = [call EXCEPT ![c].forwarded = [a |-> loc[c].a, kw |-> loc[c].kw],
                            ![c].called = TRUE,
                            ![c].prim = o,
                            ![c].log = @ \o <<"old_popen_init", "exit">>,
                            ![c].result = o]
    /\ pc' = [pc EXCEPT ![c] = "idle"]
    /\ loc' = [loc EXCEPT ![c] = NoLoc]
    /\ UNCHANGED <<fn, integration, sentrysdk_recorder, sentrysdk_data_dict, sent, heap,
                   requested>>

\* line 187 and the end of the with block of line 184
PopenInit(c, o) ==
    /\ pc[c] = "pp_init"
    /\ spans' = HubSpanExit(spans, loc[c].span, o.exc)
    /\ call' = [call EXCEPT ![c].forwarded = [a |-> loc[c].a, kw |-> loc[c].kw],
                            ![c].called = TRUE,
                            ![c].prim = o,
                            ![c].log = @ \o <<"old_popen_init", "exit">>,
                            ![c].result = o]
    /\ pc' = [pc EXCEPT ![c] = "idle"]
    /\ loc' = [loc EXCEPT ![c] = NoLoc]
    /\ UNCHANGED <<fn, integration, sentrysdk_recorder, sentrysdk_data_dict, sent, heap, requested>>

(***************************************************************************)
(* The integration is switched on or off                                   *)
(***************************************************************************)
\* the caller closes the connection (HTTPConnection.close is not wrapped)
Close(c) ==
    /\ pc[c] = "idle"
    /\ requested[c]
    /\ requested' = [requested EXCEPT ![c] = FALSE]
    /\ UNCHANGED <<fn, integration, pc, loc, sentrysdk_recorder, sentrysdk_data_dict, sent,
                   spans, call, heap>>

Toggle ==
    /\ integration' = ~integration
    /\ UNCHANGED <<fn, pc, loc, sentrysdk_recorder, sentrysdk_data_dict, sent, spans, call, heap, requested>>

(***************************************************************************)
(* Specification                                                           *)
(***************************************************************************)
\* no function is under evaluation
NoFn == [name |-> "none"]

Init ==
    /\ integration \in BOOLEAN
    /\ pc = [c \in Conns |-> "idle"]
    /\ loc = [c \in Conns |-> NoLoc]
    /\ sentrysdk_recorder = [c \in Conns |-> 0]
    /\ sentrysdk_data_dict = [c \in Conns |-> 0]
    /\ sent = [c \in Conns |-> <<>>]
    /\ requested = [c \in Conns |-> FALSE]
    /\ spans = <<>>
    /\ call = [c \in Conns |-> NoCall]
    /\ heap = InitialHeap
    /\ fn = NoFn

Next ==
    \/ Toggle
    \/ \E c \in Conns : Close(c)
    \/ \E c \in Conns, m \in Methods, u \in Urls : PutRequestBegin(c, m, u)
    \/ \E c \in Conns, o \in PutRequestOutcomes : PutRequestForward(c, o)
    \/ \E c \in Conns, o \in PutRequestOutcomes : PutRequestReal(c, o)
    \/ \E c \in Conns, hs \in HeaderSeqs : \E n \in 0..Len(hs) : PutRequestHeaders(c, hs, n)
    \/ \E c \in Conns : PutRequestExcept(c)
    \/ \E c \in Conns : PutRequestStore(c)
    \/ \E c \in Conns : GetResponseBegin(c)
    \/ \E c \in Conns, o \in GetResponseOutcomes : GetResponseForward(c, o)
    \/ \E c \in Conns, o \in GetResponseOutcomes : GetResponseReal(c, o)
    \/ \E c \in Conns : GetResponseExcept(c)
    \/ \E c \in Conns : GetResponseElse(c)
    \/ \E c \in Conns, g \in PopenCalls, hs \in HeaderSeqs : PopenBegin(c, g, hs)
    \/ \E c \in Conns, o \in PopenOutcomes : PopenForward(c, o)
    \/ \E c \in Conns, o \in PopenOutcomes : PopenInit(c, o)

Spec == Init /\ [][Next]_vars

(***************************************************************************)
(* Two threads, each with a connection handle of its own, whose calls of   *)
(* putrequest and getresponse interleave statement group by statement      *)
(* group.  The integration is active.                                      *)
(***************************************************************************)
Threads == {"c1", "c2"}

InitThreads ==
    /\ integration = TRUE
    /\ pc = [c \in Threads |-> "idle"]
    /\ loc = [c \in Threads |-> NoLoc]
    /\ sentrysdk_recorder = [c \in Threads |-> 0]
    /\ sentrysdk_data_dict = [c \in Threads |-> 0]
    /\ sent = [c \in Threads |-> <<>>]
    /\ requested = [c \in Threads |-> FALSE]
    /\ spans = <<>>
    /\ call = [c \in Threads |-> NoCall]
    /\ heap = InitialHeap
    /\ fn = NoFn

NextThreads ==
    \/ \E c \in Threads, m \in Methods, u \in Urls : PutRequestBegin(c, m, u)
    \/ \E c \in Threads, o \in PutRequestOutcomes : PutRequestReal(c, o)
    \/ \E c \in Threads : PutRequestHeaders(c, <<H1>>, 1)
    \/ \E c \in Threads : PutRequestExcept(c)
    \/ \E c \in Threads : PutRequestStore(c)
    \/ \E c \in Threads : GetResponseBegin(c)
    \/ \E c \in Threads, o \in GetResponseOutcomes : GetResponseForward(c, o)
    \/ \E c \in Threads, o \in GetResponseOutcomes : GetResponseReal(c, o)
    \/ \E c \in Threads : GetResponseExcept(c)
    \/ \E c \in Threads : GetResponseElse(c)

SpecThreads == InitThreads /\ [][NextThreads]_vars

(***************************************************************************)
(* The functions of the module, evaluated on their own: the URL of         *)
(* putrequest, _init_argument, the environment encoding of the headers and *)
(* its accessor, add_python_runtime_context.  fn holds the arguments and,  *)
(* once the function has been applied, the result.                         *)
(***************************************************************************)
\* the variables of the wrappers, which an evaluation leaves alone
wrappers == <<integration, pc, loc, sentrysdk_recorder, sentrysdk_data_dict,
              sent, requested, spans, call, heap>>

Hosts == {"example.com", "localhost"}

Ports == {80, 443, 8080}

DefaultPorts == {80, 443}

\* what a caller passes as url: paths, and an absolute URL (a request to a proxy)
UrlArgs == { <<"/path">>, <<"/a", "?", "q=1">>, <<"http", "://", "other.org", "/x">> }

RealUrlInputs ==
    { [name |-> "real_url", done |-> FALSE, host |-> h, port |-> p,
       default_port |-> d, url |-> u, out |-> <<>>] :
      h \in Hosts, p \in Ports, d \in DefaultPorts, u \in UrlArgs }

\* lines 55-66 on a connection with the given host, port and default_port
EvalRealUrl ==
    /\ fn.name = "real_url"
    /\ ~fn.done
    /\ fn' = [fn EXCEPT !.done = TRUE,
                        !.out = RealUrl(fn.host, fn.port, fn.default_port, fn.url)]
    /\ UNCHANGED wrappers

\* positional arguments of a call: none, the command, and eleven of them, up
\* to env
ArgLists ==
    { <<>>, <<CmdList>>,
      <<CmdList, 0, 0, 0, 0, 0, 0, 0, 0, CwdStr, CallerEnv>>,
      <<CmdList, 0, 0, 0, 0, 0, 0, 0, 0, PyNone, EmptyEnv>> }

KwargDicts ==
    { <<>>, ("cwd" :> CwdStr), ("env" :> CallerEnv), ("env" :> PyNone),
      ("args" :> CmdList) @@ ("env" :> EmptyEnv) }

\* the parameters the module looks for, with their positions
Parameters ==
    { [arg |-> "args", position |-> PosArgs], [arg |-> "cwd", position |-> PosCwd],
      [arg |-> "env", position |-> PosEnv] }

\* the default functions a parameter is looked up with; dict(x or os.environ)
\* is for mappings, that is for env
Callbacks(arg) == IF arg = "env" THEN {"none", "null", "env"} ELSE {"none", "null"}

NoExtract == [rv |-> PyNone, args |-> <<>>, kwargs |-> <<>>, heap |-> <<>>]

InitArgumentCalls ==
    { [name |-> "init_argument", done |-> FALSE, args |-> a, kwargs |-> k,
       arg |-> p.arg, position |-> p.position, cb |-> cb, out |-> NoExtract] :
      a \in ArgLists, k \in KwargDicts,
      p \in Parameters, cb \in {"none", "null", "env"} }

InitArgumentInputs == { f \in InitArgumentCalls : f.cb \in Callbacks(f.arg) }

\* lines 117-144 on a list of positional and a dict of keyword arguments
EvalInitArgument ==
    /\ fn.name = "init_argument"
    /\ ~fn.done
    /\ fn' = [fn EXCEPT !.done = TRUE,
                        !.out = InitArgument(fn.args, fn.kwargs, fn.arg, fn.position,
                                             fn.cb, InitialHeap)]
    /\ UNCHANGED wrappers

\* header names a trace context may give, and their values
HeaderNames == { <<"s", "-", "t">>, <<"s", "_", "t">>, <<"S", "-", "T">>, <<"b">> }

HeaderValues == {"abc", "x=1"}

Headers == [name : HeaderNames, value : HeaderValues]

\* sequences of at most two headers
EnvironmentInputs ==
    { [name |-> "environment", done |-> FALSE, hs |-> hs,
       out |-> [env |-> <<>>, headers |-> {}]] :
      hs \in {<<>>} \cup { <<h>> : h \in Headers } \cup (Headers \X Headers) }

\* str.lower() on the characters header names are made of
Lower(ch) ==
    IF \E i \in 1..Len(UpperChars) : UpperChars[i] = ch
    THEN LowerChars[CHOOSE i \in 1..Len(UpperChars) : UpperChars[i] = ch]
    ELSE ch

HasPrefix(k, prefix) ==
    /\ Len(k) >= Len(prefix)
    /\ SubSeq(k, 1, Len(prefix)) = prefix

\* the header name an environment variable stands for: the prefix is stripped,
\* case and format are reversed
HeaderName(k, prefix) ==
    [i \in 1..(Len(k) - Len(prefix)) |->
        IF k[i + Len(prefix)] = "_" THEN "-" ELSE Lower(k[i + Len(prefix)])]

\* EnvironHeaders(environ, prefix): the headers of the variables with the prefix
EnvironHeaders(environ, prefix) ==
    { [name |-> HeaderName(k, prefix), value |-> environ[k]] :
      k \in { x \in DOMAIN environ : HasPrefix(x, prefix) } }

\* lines 192-193, in a process whose os.environ is environ
GetSubprocessTraceparentHeaders(environ) == EnvironHeaders(environ, EnvPrefix)

\* lines 177-182 for a Popen call that gives no env, then lines 192-193 in the
\* child, which inherits os.environ when the call has made no env
EvalEnvironment ==
    /\ fn.name = "environment"
    /\ ~fn.done
    /\ LET st  == InjectHeaders(fn.hs, 1, [a |-> <<CmdList>>, kw |-> <<>>,
                                           env |-> PyNone, heap |-> InitialHeap])
           env == st.heap[IF st.env = PyNone THEN OsEnviron ELSE st.env]
       IN  fn' = [fn EXCEPT !.done = TRUE,
                           !.out = [env |-> env,
                                    headers |-> GetSubprocessTraceparentHeaders(env)]]
    /\ UNCHANGED wrappers

\* the values of an event: strings and dicts of strings
Str(t) == [isdict |-> FALSE, items |-> <<>>, text |-> t]

Dict(m) == [isdict |-> TRUE, items |-> m, text |-> ""]

\* _RUNTIME_CONTEXT, lines 19-23
RuntimeContext == "CPython 3.8.0"

\* the contexts of an event: none, a value that is no dict, dicts with and
\* without a runtime entry of the event's own
ContextValues ==
    { Str("n/a"), Dict(<<>>), Dict("os" :> "linux"), Dict("runtime" :> "custom"),
      Dict(("runtime" :> "custom") @@ ("os" :> "linux")) }

Events ==
    { <<>>, ("message" :> Str("hi")) }
    \cup { ("contexts" :> c) : c \in ContextValues }
    \cup { ("message" :> Str("hi")) @@ ("contexts" :> c) : c \in ContextValues }

\* the processor is applied to an event at most this many times
MaxApply == 2

EventInputs ==
    { [name |-> "event", count |-> 0, prev |-> e, event |-> e] : e \in Events }

\* a processor that sets the runtime entry whatever the contexts hold
AddPythonRuntimeContextOverwrites(active, event) ==
    IF active
    THEN LET ev       == IF "contexts" \in DOMAIN event THEN event
                         ELSE DictSet(event, "contexts", Dict(<<>>))
             contexts == ev["contexts"]
         IN  IF contexts.isdict
             THEN DictSet(ev, "contexts",
                          Dict(DictSet(contexts.items, "runtime", RuntimeContext)))
             ELSE ev
    ELSE event

\* lines 36-42
AddPythonRuntimeContext(active, event) ==
    IF active
    THEN LET ev       == IF "contexts" \in DOMAIN event THEN event
                         ELSE DictSet(event, "contexts", Dict(<<>>))
             contexts == ev["contexts"]
         IN  IF contexts.isdict /\ "runtime" \notin DOMAIN contexts.items
             THEN DictSet(ev, "contexts",
                          Dict(DictSet(contexts.items, "runtime", RuntimeContext)))
             ELSE ev
    ELSE event

\* the event processor is applied to the event, again to its result
EvalRuntimeContext ==
    /\ fn.name = "event"
    /\ fn.count < MaxApply
    /\ fn' = [fn EXCEPT !.count = @ + 1,
                        !.prev = fn.event,
                        !.event = AddPythonRuntimeContext(integration, fn.event)]
    /\ UNCHANGED wrappers

InitFn ==
    /\ integration \in BOOLEAN
    /\ pc = [c \in Conns |-> "idle"]
    /\ loc = [c \in Conns |-> NoLoc]
    /\ sentrysdk_recorder = [c \in Conns |-> 0]
    /\ sentrysdk_data_dict = [c \in Conns |-> 0]
    /\ sent = [c \in Conns |-> <<>>]
    /\ requested = [c \in Conns |-> FALSE]
    /\ spans = <<>>
    /\ call = [c \in Conns |-> NoCall]
    /\ heap = InitialHeap
    /\ \/ fn \in RealUrlInputs
       \/ fn \in InitArgumentInputs
       \/ fn \in EnvironmentInputs
       \/ fn \in EventInputs

NextFn ==
    \/ EvalRealUrl
    \/ EvalInitArgument
    \/ EvalEnvironment
    \/ EvalRuntimeContext

SpecFn == InitFn /\ [][NextFn]_vars

(***************************************************************************)
(* Properties                                                              *)
(***************************************************************************)
\* the last call of thread c has ended: its caller has a result
Ended(c) == call[c].result.kind # "none"

\* the span the last call of thread c opened or found on the handle
CallSpan(c) == spans[call[c].span]

C4_SignatureProbe ==
    \A c \in Conns :
        /\ (call[c].op = "getresponse" /\ call[c].prim.exc = "TypeError")
           => /\ Ended(c)
              /\ call[c].result = call[c].prim
              /\ sentrysdk_recorder[c] = call[c].before
              /\ call[c].before # 0
                 => /\ CallSpan(c).state = call[c].state0
                    /\ call[c].state0 = "open"
                       => /\ CallSpan(c).closes = 0
                          /\ CallSpan(c).outcome = "none"
                          /\ CallSpan(c).exc = "none"
                          /\ CallSpan(c).data = NoData
        /\ (call[c].op = "getresponse" /\ call[c].prev = "probe"
            /\ call[c].state0 = "open" /\ call[c].prim.kind = "return" /\ Ended(c))
           => /\ CallSpan(c).state = "closed"
              /\ CallSpan(c).closes = 1
              /\ CallSpan(c).outcome = "success"

\* the retry after a probe on an open span has returned
C4_Witness ==
    \E c \in Conns :
        /\ call[c].op = "getresponse"
        /\ call[c].prev = "probe"
        /\ call[c].state0 = "open"
        /\ call[c].prim.kind = "return"
        /\ Ended(c)

\* C5: whatever wrapper is called, the caller gets exactly what the unwrapped
\* primitive did: the primitive was called, and its return value or exception
\* is the result of the call.
C5_Original ==
    \A c \in Conns :
        Ended(c) => /\ call[c].called
                    /\ call[c].result = call[c].prim

\* the last call of thread c found the integration off (putrequest, Popen) or
\* found no recorder on the handle (getresponse)
Passive(k) ==
    \/ k.op \in {"putrequest", "Popen"} /\ ~k.active
    \/ k.op = "getresponse" /\ k.before = 0

\* C6: a putrequest or a Popen construction that finds the integration off, and
\* a getresponse on a handle without recorder, hand the caller's arguments to
\* the unwrapped primitive and its result to the caller; they open and close no
\* span, put no propagation header, create no env mapping and leave what the
\* handle stores as it is.
C6_Passthrough ==
    /\ [](\A c \in Conns :
            Passive(call[c])
            => /\ call[c].span = 0
               /\ call[c].log = <<>>
               /\ call[c].hdrs = <<>>
               /\ sentrysdk_recorder[c] = call[c].before
               /\ call[c].called => call[c].forwarded = call[c].given
               /\ Ended(c) => call[c].called /\ call[c].result = call[c].prim
               /\ (call[c].op = "putrequest" /\ call[c].prim.kind = "return")
                  => sent[c] = <<>>
               /\ call[c].op = "Popen" => heap = InitialHeap)
    /\ [][\A c \in Conns :
            Passive(call'[c])
            => \A i \in DOMAIN spans' : i \in DOMAIN spans /\ spans'[i] = spans[i]]_vars

\* a putrequest that found the integration off has returned on a handle that
\* stores a recorder, and a header of an earlier request was on the connection
C6_Witness ==
    \E c \in Conns :
        /\ call[c].op = "putrequest"
        /\ ~call[c].active
        /\ call[c].before # 0
        /\ call[c].prim.kind = "return"
        /\ Ended(c)

\* C7: an active putrequest opens the span, then calls the unwrapped putrequest,
\* then, when that call returned, puts every propagation header, and only then
\* stores the span and its data mapping on the handle; when the unwrapped call
\* raised no header is put, and nothing is stored unless the call returns.
C7_PutRequestOrder ==
    \A c \in Conns :
        (call[c].op = "putrequest" /\ call[c].active)
        => LET log  == call[c].log
               last == log[Len(log)]
           IN  /\ Len(log) >= 1 /\ log[1] = "open"
               /\ Len(log) >= 2 => log[2] = "real_putrequest" /\ call[c].called
               /\ pc[c] = "pr_real"
                  => /\ ~call[c].called
                     /\ CallSpan(c).state = "open"
               /\ \A k \in 1..Len(log) :
                     /\ log[k] = "putheader" => k > 2 /\ call[c].prim.kind = "return"
                     /\ log[k] = "store" => k = Len(log)
               /\ call[c].prim.kind = "raise"
                  => \A k \in 1..Len(log) : log[k] \notin {"putheader", "store"}
               /\ last = "store"
                  => /\ log = <<"open", "real_putrequest">>
                              \o [k \in 1..Len(call[c].hdrs) |-> "putheader"]
                              \o <<"store">>
                     /\ sent[c] = call[c].hdrs
                     /\ sentrysdk_recorder[c] = call[c].span
                     /\ sentrysdk_data_dict[c] = call[c].span
                     /\ Ended(c) /\ call[c].result.kind = "return"
               /\ last # "store"
                  => /\ sentrysdk_recorder[c] = call[c].before
                     /\ sentrysdk_data_dict[c] = call[c].before
                     /\ call[c].result.kind # "return"

\* an active putrequest with two propagation headers has returned
C7_Witness ==
    \E c \in Conns :
        /\ call[c].op = "putrequest"
        /\ call[c].active
        /\ call[c].hdrs = <<H1, H2>>
        /\ sent[c] = <<H1, H2>>
        /\ call[c].result.kind = "return"

\* what lines 97-99 leave in the data mapping for the response rv
Recorded(d, rv) ==
    /\ d.httplib_response = rv
    /\ d.status_code = rv.status
    /\ d.reason = rv.reason

\* C8 as stated: when a span is attached to the handle and the unwrapped
\* getresponse returns, the response, its status code and its reason are in the
\* span's data mapping and the span is closed with the outcome success, whatever
\* the status code.
C8_Original ==
    \A c \in Conns :
        (call[c].op = "getresponse" /\ call[c].before # 0 /\ Ended(c)
         /\ call[c].prim.kind = "return")
        => /\ Recorded(CallSpan(c).data, call[c].prim.rv)
           /\ CallSpan(c).state = "closed"
           /\ CallSpan(c).outcome = "success"

\* C8, amended: when an open span is attached to the handle and the unwrapped
\* getresponse returns, the response, its status code and its reason are in the
\* span's data mapping and the span is closed, once, with the outcome success,
\* whatever the status code; the caller gets the response.
C8_Response ==
    \A c \in Conns :
        (call[c].op = "getresponse" /\ call[c].state0 = "open" /\ Ended(c)
         /\ call[c].prim.kind = "return")
        => /\ Recorded(CallSpan(c).data, call[c].prim.rv)
           /\ CallSpan(c).state = "closed"
           /\ CallSpan(c).closes = 1
           /\ CallSpan(c).outcome = "success"
           /\ CallSpan(c).exc = "none"
           /\ call[c].result = call[c].prim

\* a getresponse on an open span has returned a 404
C8_Witness ==
    \E c \in Conns :
        /\ call[c].op = "getresponse"
        /\ call[c].state0 = "open"
        /\ call[c].prim.kind = "return"
        /\ call[c].prim.rv.status = 404
        /\ CallSpan(c).data.status_code = 404
        /\ Ended(c)

\* C9: an active Popen construction opens one span, of op "subprocess"; the
\* unwrapped constructor runs while that span is open; when the constructor has
\* returned or raised the span is closed, once, with the outcome success iff the
\* constructor returned; a subprocess span is open only while its constructor
\* runs.
C9_PopenSpan ==
    /\ \A c \in Conns :
          (call[c].op = "Popen" /\ call[c].active)
          => /\ call[c].span \in DOMAIN spans
             /\ CallSpan(c).op = "subprocess"
             /\ ~Ended(c)
                => /\ pc[c] = "pp_init"
                   /\ ~call[c].called
                   /\ call[c].log = <<"open">>
                   /\ CallSpan(c).state = "open"
                   /\ CallSpan(c).closes = 0
             /\ Ended(c)
                => /\ pc[c] = "idle"
                   /\ call[c].called
                   /\ call[c].log = <<"open", "old_popen_init", "exit">>
                   /\ CallSpan(c).state = "closed"
                   /\ CallSpan(c).closes = 1
                   /\ CallSpan(c).outcome = "success" <=> call[c].prim.kind = "return"
                   /\ CallSpan(c).outcome = "failure" <=> call[c].prim.kind = "raise"
    /\ \A i \in DOMAIN spans :
          spans[i].op = "subprocess"
          => /\ \E c \in Conns : call[c].op = "Popen" /\ call[c].active /\ call[c].span = i
             /\ spans[i].state = "open" => \E c \in Conns : pc[c] = "pp_init" /\ loc[c].span = i

\* an active Popen construction has ended with an exception of the constructor
C9_Witness ==
    \E c \in Conns :
        /\ call[c].op = "Popen"
        /\ call[c].active
        /\ call[c].prim.kind = "raise"
        /\ CallSpan(c).outcome = "failure"
        /\ Ended(c)

\* C10: an active Popen construction for which the trace context has no
\* propagation header gives the unwrapped constructor the positional and keyword
\* arguments of the caller: no env is added, a given env is the same object, and
\* no mapping is created or changed.
C10_NoHeadersNoEnv ==
    \A c \in Conns :
        (call[c].op = "Popen" /\ call[c].active /\ call[c].hdrs = <<>>)
        => /\ heap = InitialHeap
           /\ pc[c] = "pp_init" => /\ loc[c].a = call[c].given.a
                                   /\ loc[c].kw = call[c].given.kw
           /\ call[c].called => call[c].forwarded = call[c].given

\* such a construction has called the constructor, for a caller that gave no env
C10_Witness ==
    \E c \in Conns :
        /\ call[c].op = "Popen"
        /\ call[c].active
        /\ call[c].hdrs = <<>>
        /\ call[c].called
        /\ "env" \notin DOMAIN call[c].given.kw
        /\ Len(call[c].given.a) = 1

\* the env argument of a Popen call g = [a, kw], None when there is none
EnvOf(g) ==
    IF "env" \in DOMAIN g.kw THEN g.kw["env"]
    ELSE IF Len(g.a) > 10 THEN g.a[11]
    ELSE 0

\* the environment variable a child is to find for a propagation header
TraceVar(h) ==
    IF h.name = <<"s", "-", "t">>
    THEN <<"S", "U", "B", "P", "R", "O", "C", "E", "S", "S", "_", "S", "_", "T">>
    ELSE <<"S", "U", "B", "P", "R", "O", "C", "E", "S", "S", "_", "B">>

\* the mapping m with one variable per header of hs
WithTraceVars(m, hs) ==
    [k \in DOMAIN m \cup { TraceVar(hs[i]) : i \in 1..Len(hs) } |->
        IF \E i \in 1..Len(hs) : TraceVar(hs[i]) = k
        THEN hs[CHOOSE i \in 1..Len(hs) : TraceVar(hs[i]) = k].value
        ELSE m[k]]

\* C11: whatever the number of propagation headers, a Popen construction leaves
\* os.environ and the env mappings of the callers as they were; with headers
\* the unwrapped constructor gets an env that is a new mapping, and the trace
\* variables are in that mapping.
C11_ParentEnvUntouched ==
    /\ InitialObjects(heap) = InitialHeap
    /\ \A c \in Conns :
          (call[c].op = "Popen" /\ call[c].active /\ call[c].called
           /\ call[c].hdrs # <<>>)
          => LET e == EnvOf(call[c].forwarded)
             IN  /\ e \in DOMAIN heap
                 /\ e > Len(InitialHeap)
                 /\ \A i \in 1..Len(call[c].hdrs) :
                        /\ TraceVar(call[c].hdrs[i]) \in DOMAIN heap[e]
                        /\ heap[e][TraceVar(call[c].hdrs[i])] = call[c].hdrs[i].value

\* a construction with two headers, for a caller that gave a non-empty env, has
\* called the constructor with a new mapping
C11_Witness ==
    \E c \in Conns :
        /\ call[c].op = "Popen"
        /\ call[c].active
        /\ call[c].called
        /\ Len(call[c].hdrs) = 2
        /\ EnvOf(call[c].given) = 2
        /\ EnvOf(call[c].forwarded) = 4
        /\ heap[2] = InitialHeap[2]

\* C18 as stated: with at least one propagation header and an env mapping given
\* by the caller (as keyword or at position 10, the empty mapping included), the
\* unwrapped constructor gets, in the same calling convention, the caller's env
\* extended with one SUBPROCESS_<NAME> variable per header; the entries of
\* os.environ are in it only when the caller gave no env.
C18_Original ==
    \A c \in Conns :
        (call[c].op = "Popen" /\ call[c].active /\ call[c].called
         /\ call[c].hdrs # <<>>)
        => LET x == EnvOf(call[c].given)
               e == EnvOf(call[c].forwarded)
           IN  /\ "env" \in DOMAIN call[c].given.kw
                  => "env" \in DOMAIN call[c].forwarded.kw
               /\ Len(call[c].forwarded.a) = Len(call[c].given.a)
               /\ heap[e] = WithTraceVars(IF x = 0 THEN InitialHeap[1]
                                          ELSE InitialHeap[x],
                                          call[c].hdrs)

\* C13: for every host, port, default port and path given by the caller, the URL
\* of the span description is scheme://host[:port]path, where the scheme is
\* https iff the default port is 443, and http otherwise, and the segment :port
\* is left out iff the port is the default port of the connection.
C13_RealUrl ==
    (fn.name = "real_url" /\ fn.done /\ ~StartsWithScheme(fn.url))
    => LET out == fn.out
       IN  /\ Len(out) >= 3
           /\ out[1] \in {"http", "https"}
           /\ out[1] = "https" <=> fn.default_port = 443
           /\ out[2] = "://"
           /\ out[3] = fn.host
           /\ fn.port = fn.default_port <=> SubSeq(out, 4, Len(out)) = fn.url
           /\ fn.port # fn.default_port
              => /\ out[4] = ":"
                 /\ out[5] = ToString(fn.port)
                 /\ SubSeq(out, 6, Len(out)) = fn.url

\* the URL was built for port 443 on a connection whose default port is 80
C13_Witness ==
    /\ fn.name = "real_url"
    /\ fn.done
    /\ fn.port = 443
    /\ fn.default_port = 80
    /\ fn.host = "localhost"
    /\ fn.out = <<"http", "://", "localhost", ":", "443", "/path">>

\* the value a call gives for the parameter fn.arg, None when it gives none
Supplied ==
    IF fn.arg \in DOMAIN fn.kwargs THEN fn.kwargs[fn.arg]
    ELSE IF fn.position < Len(fn.args) THEN fn.args[fn.position + 1]
    ELSE 0

\* C14: _init_argument called without a default function has no side effect,
\* whether the parameter is given by keyword, given by position or absent: args
\* and kwargs are what they were before the call (and no mapping is created or
\* changed), and the result is the value given, or None when none is given.
C14_ReadOnlyLookup ==
    (fn.name = "init_argument" /\ fn.done /\ fn.cb = "none")
    => /\ fn.out.args = fn.args
       /\ fn.out.kwargs = fn.kwargs
       /\ fn.out.heap = InitialHeap
       /\ fn.out.rv = Supplied

\* the lookup of cwd was made for a call that gives neither cwd nor the eight
\* positional arguments before it
C14_Witness ==
    /\ fn.name = "init_argument"
    /\ fn.done
    /\ fn.cb = "none"
    /\ fn.arg = "cwd"
    /\ fn.args = <<-1>>
    /\ fn.kwargs = ("env" :> 2)
    /\ fn.out.rv = 0

HeaderSet(hs) == { hs[i] : i \in 1..Len(hs) }

\* the variables of an environment that carry a header
TraceVars(env) ==
    { k \in DOMAIN env :
        /\ Len(k) > 11
        /\ SubSeq(k, 1, 11) = <<"S", "U", "B", "P", "R", "O", "C", "E", "S", "S", "_">> }

\* C12 as stated: for any sequence H of propagation headers, writing them to
\* the environment (prefix SUBPROCESS_, name in upper case, '-' replaced by '_')
\* and reading them back through the accessor gives H: each header name has one
\* variable of its own, distinct names do not share a variable, and
\* from_environment(to_environment_pairs(H)) = H.
C12_Original ==
    (fn.name = "environment" /\ fn.done)
    => /\ fn.out.headers = HeaderSet(fn.hs)
       /\ Cardinality(TraceVars(fn.out.env))
             = Cardinality({ fn.hs[i].name : i \in 1..Len(fn.hs) })

\* a header name in the form the accessor gives back: no upper-case letter and
\* no underscore
Canonical(n) == \A i \in 1..Len(n) : n[i] \notin {"A", "B", "S", "T", "_"}

\* C12, amended: for any sequence H of propagation headers whose names are
\* pairwise distinct and made of lower-case letters and '-' only, writing them
\* to the environment and reading them back through the accessor gives H: each
\* name has one variable of its own, SUBPROCESS_ followed by the name in upper
\* case with '_' for '-', holding the value of the header, and
\* from_environment(to_environment_pairs(H)) = H.
C12_RoundTrip ==
    (/\ fn.name = "environment"
     /\ fn.done
     /\ \A i \in 1..Len(fn.hs) : Canonical(fn.hs[i].name)
     /\ \A i, j \in 1..Len(fn.hs) : fn.hs[i].name = fn.hs[j].name => i = j)
    => /\ fn.out.headers = HeaderSet(fn.hs)
       /\ Cardinality(TraceVars(fn.out.env)) = Len(fn.hs)
       /\ \A i \in 1..Len(fn.hs) :
             /\ TraceVar(fn.hs[i]) \in DOMAIN fn.out.env
             /\ fn.out.env[TraceVar(fn.hs[i])] = fn.hs[i].value

\* two headers, s-t and b, were written and read back
C12_Witness ==
    /\ fn.name = "environment"
    /\ fn.done
    /\ Len(fn.hs) = 2
    /\ fn.hs[1].name = <<"s", "-", "t">>
    /\ fn.hs[2].name = <<"b">>
    /\ Cardinality(fn.out.headers) = 2

\* the entries of the contexts of an event, none when it has no contexts dict
ContextItems(e) ==
    IF "contexts" \in DOMAIN e /\ e["contexts"].isdict THEN e["contexts"].items
    ELSE <<>>

\* the event has a contexts value that is no dict
ContextsNoDict(e) == "contexts" \in DOMAIN e /\ ~e["contexts"].isdict

\* C16: add_python_runtime_context puts the runtime descriptor into the contexts
\* of an event only when the integration is active and the contexts have no
\* "runtime" key (and it does so then, for contexts that are a dict or absent);
\* it removes and overwrites no key of the event or of its contexts, leaves the
\* event as it is when the integration is not active, and applied a second time
\* it changes nothing.
C16_RuntimeContext ==
    (fn.name = "event" /\ fn.count >= 1)
    => LET before == fn.prev
           after  == fn.event
       IN  /\ ~integration => after = before
           /\ \A k \in DOMAIN before :
                 /\ k \in DOMAIN after
                 /\ k # "contexts" => after[k] = before[k]
           /\ DOMAIN after \subseteq DOMAIN before \cup {"contexts"}
           /\ ContextsNoDict(before) => after = before
           /\ \A k \in DOMAIN ContextItems(before) :
                 /\ k \in DOMAIN ContextItems(after)
                 /\ ContextItems(after)[k] = ContextItems(before)[k]
           /\ DOMAIN ContextItems(after) \subseteq DOMAIN ContextItems(before) \cup {"runtime"}
           /\ after # before
              => /\ integration
                 /\ "runtime" \notin DOMAIN ContextItems(before)
                 /\ ContextItems(after)["runtime"] = RuntimeContext
           /\ (integration /\ ~ContextsNoDict(before)
               /\ "runtime" \notin DOMAIN ContextItems(before))
              => /\ "runtime" \in DOMAIN ContextItems(after)
                 /\ ContextItems(after)["runtime"] = RuntimeContext
           /\ fn.count >= 2 => after = before

\* the processor has been applied twice, with the integration active, to an
\* event whose contexts had an os entry and no runtime entry
C16_Witness ==
    /\ fn.name = "event"
    /\ fn.count = 2
    /\ integration
    /\ ContextItems(fn.event) = ("os" :> "linux") @@ ("runtime" :> "CPython 3.8.0")
    /\ "message" \in DOMAIN fn.event

\* the putrequest that opened span i has returned: no putrequest is at work on
\* the span, and none has left with an exception after it opened the span
PutRequestReturned(i) ==
    /\ \A c \in Conns :
          ~(loc[c].recorder = i
            /\ pc[c] \in {"pr_real", "pr_headers", "pr_except", "pr_store"})
    /\ \A c \in Conns :
          ~(call[c].op = "putrequest" /\ call[c].span = i
            /\ call[c].result.kind = "raise")

\* C19 as stated: in every reachable state, an HTTP span that is open and whose
\* putrequest has returned is the span of the recorder stored on a connection
\* handle, so that a later getresponse on the handle can close it.
C19_Original ==
    \A i \in DOMAIN spans :
        (spans[i].op = "http" /\ spans[i].state = "open" /\ PutRequestReturned(i))
        => \E c \in Conns : sentrysdk_recorder[c] = i

Owner(s) ==
    IF s.op # "http" THEN "none"
    ELSE IF s.description[1] = <<"http", "://", "example.com", "/path">> THEN "c1"
    ELSE IF s.description[1] = <<"https", "://", "example.com", ":", "8443", "/path">>
    THEN "c2"
    ELSE "none"

\* C17: when threads drive a connection handle each and their putrequest and
\* getresponse calls interleave in any order, the recorder and the data mapping
\* stored on a handle are those of the span that a putrequest on that handle
\* opened; a getresponse on a handle closes that span and records the response
\* in its data mapping, and no step of a getresponse changes the span or the
\* data of another handle.
C17_OwnSpan ==
    /\ [](\A c \in Threads :
            /\ sentrysdk_recorder[c] # 0
               => /\ sentrysdk_recorder[c] \in DOMAIN spans
                  /\ sentrysdk_data_dict[c] = sentrysdk_recorder[c]
                  /\ Owner(spans[sentrysdk_recorder[c]]) = c
            /\ (call[c].op = "getresponse" /\ call[c].state0 = "open" /\ Ended(c)
                /\ call[c].prim.kind = "return")
               => /\ Owner(CallSpan(c)) = c
                  /\ CallSpan(c).state = "closed"
                  /\ CallSpan(c).closes = 1
                  /\ Recorded(CallSpan(c).data, call[c].prim.rv))
    /\ [][\A c \in Threads :
            (call'[c].op = "getresponse" /\ call'[c] # call[c])
            => \A i \in DOMAIN spans \cap DOMAIN spans' :
                  Owner(spans[i]) # c => spans'[i] = spans[i]]_vars

\* the getresponse of one thread has returned a 404 and closed the span of its
\* handle while the span of the other handle, whose response was a 200, is there
C17_Witness ==
    /\ call["c1"].op = "getresponse"
    /\ call["c1"].state0 = "open"
    /\ call["c1"].prim.kind = "return"
    /\ Ended("c1")
    /\ CallSpan("c1").data.status_code = 404
    /\ sentrysdk_recorder["c2"] # 0
    /\ sentrysdk_recorder["c2"] # sentrysdk_recorder["c1"]
    /\ spans[sentrysdk_recorder["c2"]].data.status_code = 200

====
